---- MODULE Spec2Model ----
(***************************************************************************)
(* Model of ClinicInfoScraper (src/clinic_info_scraper.py).                *)
(*                                                                         *)
(* Texts are sequences of tokens.  The tokens that the code looks for are  *)
(*   "in" = 院, "mei" = 名, "clinic" = クリニック, "jusho" = 住所,          *)
(*   "access" = アクセス, "shozaichi" = 所在地, "sp" = white space.         *)
(* An optional value (a bs4 element or a regex match that may be None) is  *)
(* a sequence of length 0 (None) or 1 (the raw text of the element).       *)
(* A URL is a record [host, segs, slash]; a href is the same record, with  *)
(* an empty host when it is relative to the site root.                     *)
(***************************************************************************)
EXTENDS Integers, Sequences, FiniteSets, TLC

VARIABLES
    progress,           \* self.progress
    total,              \* self.total
    status,             \* self.status
    current_action,     \* self.current_action
    clinic_data,        \* self.clinic_data
    pc,                 \* position inside scrape_clinics / the pure call
    url,                \* argument of scrape_clinics / extract_clinic_info
    soup,               \* parsed page at hand
    current_page_info,  \* local of scrape_clinics
    clinic_links,       \* local of scrape_clinics / result of find_clinic_links
    i,                  \* loop index of enumerate(clinic_links)
    ret,                \* value returned by scrape_clinics ("none" while it runs)
    label,              \* clinic_name argument of a direct extract_clinic_info call
    fetched,            \* history: URLs requested by the current invocation
    results,            \* history: outcome of each branch fetch of the invocation
    data0,              \* history: clinic_data when the invocation started
    prog0,              \* history: <<progress, total>> when the invocation started
    root_result         \* history: outcome of the root fetch of the invocation

vars == <<progress, total, status, current_action, clinic_data, pc, url, soup,
          current_page_info, clinic_links, i, ret, label, fetched, results, data0,
          prog0, root_result>>

(***************************************************************************)
(* Bounds                                                                  *)
(***************************************************************************)
MaxLinks == 6       \* most distinct branch links on a root page
MaxCarry == 1       \* a further crawl starts only with at most this many records
MaxAnchors == 3     \* most anchors of a page in the link-discovery runs
MaxRows == 2        \* most table rows of a page in the extraction runs

(***************************************************************************)
(* Text helpers                                                            *)
(***************************************************************************)
None == <<>>
Some(t) == <<t>>

RECURSIVE LStrip(_)
LStrip(t) == IF t # <<>> /\ Head(t) = "sp" THEN LStrip(Tail(t)) ELSE t

RECURSIVE RStrip(_)
RStrip(t) == IF t # <<>> /\ t[Len(t)] = "sp" THEN RStrip(SubSeq(t, 1, Len(t) - 1)) ELSE t

\* elem.get_text(strip=True)
get_text_strip(t) == RStrip(LStrip(t))

\* pat in text
Contains(text, pat) ==
    \E k \in 1..(Len(text) - Len(pat) + 1) : SubSeq(text, k, k + Len(pat) - 1) = pat

\* urlparse(url).netloc
netloc(u) == u.host

\* urljoin(base_url, href)
urljoin(base, href) ==
    IF href.host = <<>>
    THEN [host |-> base.host, segs |-> href.segs, slash |-> href.slash]
    ELSE href

(***************************************************************************)
(* extract_clinic_info                                                     *)
(***************************************************************************)
\* one pass of the table loop of the eminal-clinic branch
RECURSIVE ScanRowsB(_, _)
ScanRowsB(rows, info) ==
    IF rows = <<>> THEN info
    ELSE LET tr == Head(rows)
             header == get_text_strip(tr.th[1])
             data == get_text_strip(tr.td[1])
             next == IF tr.th # None /\ tr.td # None
                     THEN IF Contains(header, <<"in", "mei">>)
                          THEN [info EXCEPT !.name = data]
                          ELSE IF Contains(header, <<"jusho">>)
                          THEN [info EXCEPT !.address = data]
                          ELSE IF Contains(header, <<"access">>)
                          THEN [info EXCEPT !.access = data]
                          ELSE info
                     ELSE info
         IN ScanRowsB(Tail(rows), next)

\* one pass of the table loop of the frey-a branch
RECURSIVE ScanRowsC(_, _)
ScanRowsC(rows, info) ==
    IF rows = <<>> THEN info
    ELSE LET tr == Head(rows)
             header == get_text_strip(tr.th[1])
             data == get_text_strip(tr.td[1])
             next == IF tr.th # None /\ tr.td # None
                     THEN IF Contains(header, <<"shozaichi">>)
                          THEN [info EXCEPT !.address = data]
                          ELSE IF Contains(header, <<"access">>)
                          THEN [info EXCEPT !.access = data]
                          ELSE info
                     ELSE info
         IN ScanRowsC(Tail(rows), next)

\* for tag in ['h1', 'h2']: first heading whose text holds 院 or クリニック
RECURSIVE HeadingName(_)
HeadingName(elems) ==
    IF elems = <<>> THEN <<>>
    ELSE LET elem == Head(elems)
             text == get_text_strip(elem[1])
         IN IF elem # None /\ (Contains(text, <<"in">>) \/ Contains(text, <<"clinic">>))
            THEN text
            ELSE HeadingName(Tail(elems))

\* for pattern in address_patterns: first pattern that matches
RECURSIVE FirstMatch(_)
FirstMatch(matches) ==
    IF matches = <<>> THEN <<>>
    ELSE IF Head(matches) # None THEN Head(matches)[1]
    ELSE FirstMatch(Tail(matches))

\* variant: a qualifying heading replaces the label
GenericName_headingFirst(sp, clinic_name) ==
    IF HeadingName(<<sp.h1, sp.h2>>) # <<>>
    THEN HeadingName(<<sp.h1, sp.h2>>)
    ELSE clinic_name

\* lines 104-111
GenericName(sp, clinic_name) ==
    IF clinic_name = <<>>
    THEN HeadingName(<<sp.h1, sp.h2>>)
    ELSE clinic_name

extract_clinic_info(sp, u, clinic_name) ==
    LET clinic_info == [name |-> clinic_name, address |-> <<>>, access |-> <<>>, url |-> u]
        domain == netloc(u)
    IN IF Contains(domain, <<"dioclinic">>)
       THEN [clinic_info EXCEPT
               !.name = IF sp.h2_clinic_name # None
                        THEN get_text_strip(sp.h2_clinic_name[1]) ELSE @,
               !.address = IF sp.div_address # None
                           THEN get_text_strip(sp.div_address[1]) ELSE @,
               !.access = IF sp.div_access # None
                          THEN get_text_strip(sp.div_access[1]) ELSE @]
       ELSE IF Contains(domain, <<"eminal-clinic">>)
       THEN ScanRowsB(sp.rows, clinic_info)
       ELSE IF Contains(domain, <<"frey-a">>)
       THEN ScanRowsC(sp.rows,
                      [clinic_info EXCEPT
                         !.name = IF sp.h1 # None THEN get_text_strip(sp.h1[1]) ELSE @])
       ELSE [clinic_info EXCEPT
               !.name = GenericName(sp, clinic_name),
               !.address = FirstMatch(sp.re_address),
               !.access = IF sp.re_access # None THEN sp.re_access[1] ELSE <<>>]

(***************************************************************************)
(* find_clinic_links                                                       *)
(***************************************************************************)
link_patterns == <<"clinic", "store", "shop", "access">>

\* re.search(r'/<dir>/[^/]+/?$', href) for one of the four patterns
MatchesPattern(href) ==
    /\ Len(href.segs) >= 2
    /\ href.segs[Len(href.segs)] # ""
    /\ \E p \in 1..Len(link_patterns) : href.segs[Len(href.segs) - 1] = link_patterns[p]

\* first loop: the candidates, one per matching anchor, in document order
RECURSIVE Candidates(_, _)
Candidates(anchors, base_url) ==
    IF anchors = <<>> THEN <<>>
    ELSE LET a == Head(anchors)
             rest == Candidates(Tail(anchors), base_url)
         IN IF MatchesPattern(a.href)
            THEN <<[url |-> urljoin(base_url, a.href), name |-> get_text_strip(a.text)]>> \o rest
            ELSE rest

\* variant: the second loop keeps every candidate
Unique_keepAll(links, seen) == links

\* second loop: drop every link whose url was seen before
RECURSIVE Unique(_, _)
Unique(links, seen) ==
    IF links = <<>> THEN <<>>
    ELSE IF Head(links).url \in seen
         THEN Unique(Tail(links), seen)
         ELSE <<Head(links)>> \o Unique(Tail(links), seen \cup {Head(links).url})

find_clinic_links(sp, base_url) == Unique(Candidates(sp.anchors, base_url), {})

(***************************************************************************)
(* get_progress                                                            *)
(***************************************************************************)
\* round(p / t * 100) as Python rounds: to the nearest integer, ties to even
Round(p, t) ==
    LET n == 100 * p
        q == n \div t
        r2 == 2 * (n % t)
    IN IF r2 > t THEN q + 1
       ELSE IF r2 < t THEN q
       ELSE IF q % 2 = 0 THEN q ELSE q + 1

\* variant: the percentage is rounded instead of truncated
Percentage_rounded(p, t) == IF t > 0 THEN Round(p, t) ELSE 0

\* int(x) of the non-negative quotient progress / total * 100
Percentage(p, t) == IF t > 0 THEN (p * 100) \div t ELSE 0

get_progress ==
    [progress |-> progress, total |-> total, percentage |-> Percentage(progress, total),
     status |-> status, current_action |-> current_action,
     clinic_count |-> Len(clinic_data)]

(***************************************************************************)
(* The pages and URLs the crawl meets                                      *)
(***************************************************************************)
GenericHost == <<"www", "example">>
DioHost == <<"www", "dioclinic">>
EminalHost == <<"eminal-clinic">>
FreyaHost == <<"frey-a">>

SegNames == <<"s1", "s2", "s3", "s4", "s5", "s6", "s7", "s8", "s9">>

EmptyPage ==
    [h1 |-> None, h2 |-> None, h2_clinic_name |-> None, div_address |-> None,
     div_access |-> None, rows |-> <<>>, re_address |-> <<None, None>>,
     re_access |-> None, anchors |-> <<>>]

\* href of the k-th branch link of a listing page (every third one is absolute and
\* leads to another host), and its anchor text (every second one has none)
LinkHref(k) ==
    [host |-> IF k % 3 = 0 THEN DioHost ELSE <<>>,
     segs |-> <<"clinic", SegNames[k]>>, slash |-> FALSE]
LinkText(k) == IF k % 2 = 0 THEN <<"sp">> ELSE <<"sp", "branch", SegNames[k], "sp">>
Anchor(k) == [href |-> LinkHref(k), text |-> LinkText(k)]

RECURSIVE AnchorsFrom(_, _)
AnchorsFrom(k, n) ==
    IF k > n THEN <<>> ELSE <<Anchor(k)>> \o AnchorsFrom(k + 1, n)

OtherAnchor == [href |-> [host |-> <<>>, segs |-> <<"clinic", "s1", "reviews">>, slash |-> FALSE],
                text |-> <<"reviews">>]

\* the anchors of a root page with n distinct branch links
RootAnchors(n, variant) ==
    IF variant = "dup" /\ n >= 2
    THEN <<Anchor(1), [href |-> [LinkHref(1) EXCEPT !.host = GenericHost], text |-> <<"again">>]>>
         \o AnchorsFrom(2, n) \o <<OtherAnchor, Anchor(2)>>
    ELSE <<OtherAnchor>> \o AnchorsFrom(1, n)

RootContent(kind) ==
    IF kind = "full"
    THEN [EmptyPage EXCEPT !.h1 = Some(<<"sp", "shibuya", "in">>),
                           !.re_address = <<None, Some(<<"tokyo", "1">>)>>,
                           !.re_access = Some(<<"eki", "5">>)]
    ELSE IF kind = "nameonly"
    THEN [EmptyPage EXCEPT !.h1 = Some(<<"a", "clinic">>)]
    ELSE IF kind = "access"
    THEN [EmptyPage EXCEPT !.h1 = Some(<<"welcome">>), !.h2 = Some(<<"a", "clinic">>),
                           !.re_access = Some(<<"eki", "5">>)]
    ELSE EmptyPage

\* a listing URL, and the URL of a branch page that lists its sister branches
RootUrls ==
    {[host |-> GenericHost, segs |-> <<"list">>, slash |-> TRUE],
     [host |-> GenericHost, segs |-> <<"clinic", "s1">>, slash |-> FALSE]}

RootKinds(u) ==
    IF u.segs = <<"list">>
    THEN {<<"full", "plain">>, <<"nameonly", "plain">>, <<"access", "plain">>, <<"none", "dup">>}
    ELSE {<<"none", "plain">>}

\* what a successful GET of the root URL u may return
RootPages(u) ==
    {[RootContent(kv[1]) EXCEPT !.anchors = RootAnchors(n, kv[2])] :
        n \in 0..MaxLinks, kv \in RootKinds(u)}

\* what a successful GET of a branch URL returns
BranchPage(u) ==
    LET seg == u.segs[Len(u.segs)]
        nav == <<[href |-> [host |-> <<>>, segs |-> <<"clinic", "zz">>, slash |-> FALSE],
                  text |-> <<"zz">>]>>
    IN IF seg \in {"s1", "s3", "s4", "s7"}
       THEN [EmptyPage EXCEPT !.h1 = Some(<<"shinjuku", "in", "sp">>),
                              !.h2_clinic_name = Some(<<"dio", "in">>),
                              !.div_address = Some(<<"sp", "osaka", "2">>),
                              !.re_address = <<Some(<<"160", "tokyo">>), Some(<<"tokyo", "3">>)>>,
                              !.re_access = Some(<<"eki", "3">>),
                              !.anchors = nav]
       ELSE IF seg \in {"s6", "s9"}
       THEN [EmptyPage EXCEPT !.h1 = Some(<<"welcome">>),
                              !.h2 = Some(<<"b", "clinic">>),
                              !.h2_clinic_name = Some(<<"sp">>),
                              !.anchors = nav]
       ELSE [EmptyPage EXCEPT !.anchors = nav]

\* str(e) of a failed request
Errors == {"timeout", "http404"}

NoUrl == [host |-> <<>>, segs |-> <<>>, slash |-> FALSE]
NoInfo == [name |-> <<>>, address |-> <<>>, access |-> <<>>, url |-> NoUrl]

(***************************************************************************)
(* __init__                                                                *)
(***************************************************************************)
Init ==
    /\ progress = 0
    /\ total = 0
    /\ status = <<"Idle">>
    /\ current_action = <<>>
    /\ clinic_data = <<>>
    /\ pc = "idle"
    /\ url = NoUrl
    /\ soup = EmptyPage
    /\ current_page_info = NoInfo
    /\ clinic_links = <<>>
    /\ i = 0
    /\ ret = "none"
    /\ label = <<>>
    /\ fetched = <<>>
    /\ results = <<>>
    /\ data0 = <<>>
    /\ prog0 = <<0, 0>>
    /\ root_result = "none"

(***************************************************************************)
(* scrape_clinics, statement by statement                                  *)
(***************************************************************************)
\* lines 171-175: entry, status and current_action announce the root fetch
Call ==
    /\ pc = "idle"
    /\ Len(clinic_data) <= MaxCarry
    /\ \E u \in RootUrls : url' = u /\ current_action' = <<"URL", u>>
    /\ status' = <<"FetchingRoot">>
    /\ pc' = "L178"
    /\ soup' = EmptyPage
    /\ current_page_info' = NoInfo
    /\ clinic_links' = <<>>
    /\ i' = 0
    /\ fetched' = <<>>
    /\ results' = <<>>
    /\ data0' = clinic_data
    /\ prog0' = <<progress, total>>
    /\ root_result' = "none"
    /\ ret' = "none"
    /\ UNCHANGED <<progress, total, clinic_data, label>>

\* lines 178-183: the root request succeeds and is parsed
FetchRootOk ==
    /\ pc = "L178"
    /\ fetched' = Append(fetched, url)
    /\ \E page \in RootPages(url) : soup' = page
    /\ status' = <<"ExtractingRoot">>
    /\ pc' = "L184"
    /\ root_result' = "ok"
    /\ UNCHANGED <<progress, total, current_action, clinic_data, url, current_page_info,
                   clinic_links, i, ret, label, results, data0, prog0>>

\* variant: the failure of the root request is swallowed and the crawl completes
FetchRootFail_swallowed ==
    /\ pc = "L178"
    /\ fetched' = Append(fetched, url)
    /\ root_result' = "fail"
    /\ pc' = "L221"
    /\ UNCHANGED <<progress, total, status, current_action, clinic_data, url, soup,
                   current_page_info, clinic_links, i, ret, label, results, data0, prog0>>

\* lines 178-179 raise; lines 226-229: the outer handler
FetchRootFail ==
    /\ pc = "L178"
    /\ fetched' = Append(fetched, url)
    /\ status' = <<"Failed">>
    /\ \E e \in Errors : current_action' = <<"error", e>>
    /\ ret' = "False"
    /\ pc' = "idle"
    /\ root_result' = "fail"
    /\ UNCHANGED <<progress, total, clinic_data, url, soup, current_page_info,
                   clinic_links, i, label, results, data0, prog0>>

\* line 184
ExtractRoot ==
    /\ pc = "L184"
    /\ current_page_info' = extract_clinic_info(soup, url, <<>>)
    /\ pc' = "L187"
    /\ UNCHANGED <<progress, total, status, current_action, clinic_data, url, soup,
                   clinic_links, i, ret, label, fetched, results, data0, prog0, root_result>>

\* variant: the root record is kept on its name alone
RootAccepted_nameOnly(info) == info.name # <<>>

\* the test of line 187
RootAccepted(info) == info.name # <<>> /\ (info.address # <<>> \/ info.access # <<>>)

\* lines 187-188
RootCheck ==
    /\ pc = "L187"
    /\ IF RootAccepted(current_page_info)
       THEN clinic_data' = Append(clinic_data, current_page_info) /\ pc' = "L189"
       ELSE clinic_data' = clinic_data /\ pc' = "L193"
    /\ UNCHANGED <<progress, total, status, current_action, url, soup, current_page_info,
                   clinic_links, i, ret, label, fetched, results, data0, prog0, root_result>>

\* line 189
RootProgress ==
    /\ pc = "L189"
    /\ progress' = 1
    /\ pc' = "L190"
    /\ UNCHANGED <<total, status, current_action, clinic_data, url, soup, current_page_info,
                   clinic_links, i, ret, label, fetched, results, data0, prog0, root_result>>

\* line 190
RootTotal ==
    /\ pc = "L190"
    /\ total' = 1
    /\ pc' = "L193"
    /\ UNCHANGED <<progress, status, current_action, clinic_data, url, soup,
                   current_page_info, clinic_links, i, ret, label, fetched, results, data0, prog0, root_result>>

\* variant: the threshold read as "3 or more"
IsListing_atLeast3(links) == Len(links) >= 3

\* the test of line 195
IsListing(links) == Len(links) > 3

\* lines 193-195
FindLinks ==
    /\ pc = "L193"
    /\ clinic_links' = find_clinic_links(soup, url)
    /\ pc' = IF IsListing(clinic_links') THEN "L196" ELSE "L221"
    /\ UNCHANGED <<progress, total, status, current_action, clinic_data, url, soup,
                   current_page_info, i, ret, label, fetched, results, data0, prog0, root_result>>

\* line 196
ListTotal ==
    /\ pc = "L196"
    /\ total' = Len(clinic_links)
    /\ pc' = "L197"
    /\ UNCHANGED <<progress, status, current_action, clinic_data, url, soup,
                   current_page_info, clinic_links, i, ret, label, fetched, results, data0, prog0, root_result>>

\* line 197
ListProgress ==
    /\ pc = "L197"
    /\ progress' = 0
    /\ i' = 0
    /\ pc' = "L199"
    /\ UNCHANGED <<total, status, current_action, clinic_data, url, soup, current_page_info,
                   clinic_links, ret, label, fetched, results, data0, prog0, root_result>>

\* lines 199-202: the next link, if any
LoopHead ==
    /\ pc = "L199"
    /\ i < Len(clinic_links)
    /\ progress' = i + 1
    /\ status' = <<"FetchingBranches", progress', total>>
    /\ current_action' = <<"fetching", clinic_links[i + 1].name>>
    /\ pc' = "L206"
    /\ UNCHANGED <<total, clinic_data, url, soup, current_page_info, clinic_links, i, ret,
                   label, fetched, results, data0, prog0, root_result>>

\* variant: the branch record is held to the root record's test
BranchAccepted_strict(info) == info.name # <<>> /\ (info.address # <<>> \/ info.access # <<>>)

\* the test of line 212
BranchAccepted(info) == info.name # <<>>

\* lines 206-215: the branch request succeeds
FetchBranchOk ==
    /\ pc = "L206"
    /\ LET link == clinic_links[i + 1]
           clinic_info == extract_clinic_info(BranchPage(link.url), link.url, link.name)
       IN /\ fetched' = Append(fetched, link.url)
          /\ results' = Append(results, "ok")
          /\ clinic_data' = IF BranchAccepted(clinic_info)
                            THEN Append(clinic_data, clinic_info)
                            ELSE clinic_data
    /\ i' = i + 1
    /\ pc' = "L199"
    /\ UNCHANGED <<progress, total, status, current_action, url, soup, current_page_info,
                   clinic_links, ret, label, data0, prog0, root_result>>

\* variant: a failing branch request reaches the outer handler
FetchBranchFail_aborts ==
    /\ pc = "L206"
    /\ fetched' = Append(fetched, clinic_links[i + 1].url)
    /\ results' = Append(results, "fail")
    /\ status' = <<"Failed">>
    /\ \E e \in Errors : current_action' = <<"error", e>>
    /\ ret' = "False"
    /\ pc' = "idle"
    /\ UNCHANGED <<progress, total, clinic_data, url, soup, current_page_info,
                   clinic_links, i, label, data0, prog0, root_result>>

\* variant: a failing branch request is repeated once before the link is given up
FetchBranchFail_retried ==
    /\ pc = "L206"
    /\ fetched' = fetched \o <<clinic_links[i + 1].url, clinic_links[i + 1].url>>
    /\ results' = Append(results, "fail")
    /\ i' = i + 1
    /\ pc' = "L199"
    /\ UNCHANGED <<progress, total, status, current_action, clinic_data, url, soup,
                   current_page_info, clinic_links, ret, label, data0, prog0, root_result>>

\* lines 206-207 raise; lines 217-219: log and continue
FetchBranchFail ==
    /\ pc = "L206"
    /\ fetched' = Append(fetched, clinic_links[i + 1].url)
    /\ results' = Append(results, "fail")
    /\ i' = i + 1
    /\ pc' = "L199"
    /\ UNCHANGED <<progress, total, status, current_action, clinic_data, url, soup,
                   current_page_info, clinic_links, ret, label, data0, prog0, root_result>>

\* the loop is exhausted
LoopExit ==
    /\ pc = "L199"
    /\ i >= Len(clinic_links)
    /\ pc' = "L221"
    /\ UNCHANGED <<progress, total, status, current_action, clinic_data, url, soup,
                   current_page_info, clinic_links, i, ret, label, fetched, results, data0, prog0, root_result>>

\* lines 221-224
Finish ==
    /\ pc = "L221"
    /\ status' = <<"Done">>
    /\ current_action' = <<"count", Len(clinic_data)>>
    /\ ret' = "True"
    /\ pc' = "idle"
    /\ UNCHANGED <<progress, total, clinic_data, url, soup, current_page_info,
                   clinic_links, i, label, fetched, results, data0, prog0, root_result>>

Next ==
    \/ Call
    \/ FetchRootOk
    \/ FetchRootFail
    \/ ExtractRoot
    \/ RootCheck
    \/ RootProgress
    \/ RootTotal
    \/ FindLinks
    \/ ListTotal
    \/ ListProgress
    \/ LoopHead
    \/ FetchBranchOk
    \/ FetchBranchFail
    \/ LoopExit
    \/ Finish

Spec == Init /\ [][Next]_vars

(***************************************************************************)
(* Direct calls of extract_clinic_info on every page of a bounded family   *)
(***************************************************************************)
SeqsUpTo(S, n) == UNION {[1..k -> S] : k \in 0..n}

ExtractRows ==
    {[th |-> Some(<<"in", "mei">>), td |-> Some(<<"sp", "umeda", "in">>)],
     [th |-> Some(<<"sp", "in", "mei", "sp">>), td |-> Some(<<"namba", "in">>)],
     [th |-> Some(<<"in", "mei">>), td |-> None],
     [th |-> Some(<<"jusho">>), td |-> Some(<<"osaka", "1">>)],
     [th |-> Some(<<"shozaichi">>), td |-> Some(<<"tokyo", "2">>)],
     [th |-> Some(<<"access">>), td |-> Some(<<"eki", "5">>)]}

ExtractSiteA ==
    {<<None, None>>, <<Some(<<"dio", "in", "sp">>), Some(<<"osaka", "3">>)>>, <<Some(<<"sp">>), None>>}

ExtractRegex ==
    {<<None, None, None>>, <<None, Some(<<"tokyo", "4">>), Some(<<"eki", "3">>)>>,
     <<Some(<<"150", "tokyo">>), Some(<<"tokyo", "4">>), None>>}

\* the parsed pages handed to extract_clinic_info
ExtractPages ==
    {[EmptyPage EXCEPT !.rows = rows, !.h1 = h1, !.h2 = h2,
                       !.h2_clinic_name = a[1], !.div_address = a[2], !.div_access = a[2],
                       !.re_address = <<g[1], g[2]>>, !.re_access = g[3]] :
        rows \in SeqsUpTo(ExtractRows, MaxRows),
        h1 \in {None, Some(<<"sp", "shibuya", "in">>), Some(<<"welcome">>)},
        h2 \in {None, Some(<<"b", "clinic">>)},
        a \in ExtractSiteA,
        g \in ExtractRegex}

ExtractUrls ==
    {[host |-> h, segs |-> <<"clinic", "s1">>, slash |-> FALSE] :
        h \in {GenericHost, DioHost, EminalHost, FreyaHost, <<"frey-a", "dioclinic">>}}

\* the clinic_name argument: absent, or the text of an anchor
ExtractLabels == {<<>>, <<"branch", "s1">>}

InitExtract ==
    /\ progress = 0
    /\ total = 0
    /\ status = <<"Idle">>
    /\ current_action = <<>>
    /\ clinic_data = <<>>
    /\ pc = "extract_call"
    /\ url \in ExtractUrls
    /\ soup \in ExtractPages
    /\ current_page_info = NoInfo
    /\ clinic_links = <<>>
    /\ i = 0
    /\ ret = "none"
    /\ label \in ExtractLabels
    /\ fetched = <<>>
    /\ results = <<>>
    /\ data0 = <<>>
    /\ prog0 = <<0, 0>>
    /\ root_result = "none"

\* lines 40-132, called as at line 211
CallExtract ==
    /\ pc = "extract_call"
    /\ current_page_info' = extract_clinic_info(soup, url, label)
    /\ pc' = "extract_done"
    /\ UNCHANGED <<progress, total, status, current_action, clinic_data, url, soup,
                   clinic_links, i, ret, label, fetched, results, data0, prog0, root_result>>

NextExtract == CallExtract

SpecExtract == InitExtract /\ [][NextExtract]_vars

(***************************************************************************)
(* Direct calls of find_clinic_links on every page of a bounded family     *)
(***************************************************************************)
LinkHrefs ==
    {[host |-> <<>>, segs |-> <<"clinic", "s1">>, slash |-> FALSE],
     [host |-> GenericHost, segs |-> <<"clinic", "s1">>, slash |-> FALSE],
     [host |-> <<>>, segs |-> <<"clinic", "s1">>, slash |-> TRUE],
     [host |-> <<>>, segs |-> <<"en", "store", "s2">>, slash |-> FALSE],
     [host |-> DioHost, segs |-> <<"clinic", "s1">>, slash |-> FALSE],
     [host |-> <<>>, segs |-> <<"clinic", "s1", "reviews">>, slash |-> FALSE],
     [host |-> <<>>, segs |-> <<"clinic">>, slash |-> TRUE]}

LinkTexts == {<<"sp", "shibuya", "sp">>, <<"map">>}

\* the anchors (a elements with a href) of the page, in document order
LinkAnchors == SeqsUpTo([href : LinkHrefs, text : LinkTexts], MaxAnchors)

InitLinks ==
    /\ progress = 0
    /\ total = 0
    /\ status = <<"Idle">>
    /\ current_action = <<>>
    /\ clinic_data = <<>>
    /\ pc = "links_call"
    /\ url \in RootUrls
    /\ \E a \in LinkAnchors : soup = [EmptyPage EXCEPT !.anchors = a]
    /\ current_page_info = NoInfo
    /\ clinic_links = <<>>
    /\ i = 0
    /\ ret = "none"
    /\ label = <<>>
    /\ fetched = <<>>
    /\ results = <<>>
    /\ data0 = <<>>
    /\ prog0 = <<0, 0>>
    /\ root_result = "none"

\* lines 134-169, called as at line 193
CallLinks ==
    /\ pc = "links_call"
    /\ clinic_links' = find_clinic_links(soup, url)
    /\ pc' = "links_done"
    /\ UNCHANGED <<progress, total, status, current_action, clinic_data, url, soup,
                   current_page_info, i, ret, label, fetched, results, data0, prog0,
                   root_result>>

NextLinks == CallLinks

SpecLinks == InitLinks /\ [][NextLinks]_vars

(***************************************************************************)
(* Properties                                                              *)
(***************************************************************************)
\* the root record of the invocation, if the root page passed the test of line 187
RootKept ==
    IF /\ root_result = "ok"
       /\ current_page_info.name # <<>>
       /\ (current_page_info.address # <<>> \/ current_page_info.access # <<>>)
    THEN <<current_page_info>>
    ELSE <<>>

\* the URLs of the first n discovered links
LinkUrls(n) == [k \in 1..n |-> clinic_links[k].url]

\* the records the first n links contribute, given the outcomes of their requests
RECURSIVE BranchRecords(_)
BranchRecords(n) ==
    IF n = 0 THEN <<>>
    ELSE LET link == clinic_links[n]
             rec == extract_clinic_info(BranchPage(link.url), link.url, link.name)
         IN BranchRecords(n - 1)
              \o (IF results[n] = "ok" /\ rec.name # <<>> THEN <<rec>> ELSE <<>>)

Count(x, seq) == Cardinality({k \in 1..Len(seq) : seq[k] = x})

C2_PartialFailure ==
    /\ (pc \in {"L199", "L206", "L221", "idle"} /\ Len(clinic_links) > 3) =>
          /\ clinic_data = data0 \o RootKept \o BranchRecords(Len(results))
          /\ status[1] # "Failed"
    /\ (pc = "idle" /\ Len(clinic_links) > 3) =>
          /\ ret = "True"
          /\ status = <<"Done">>
          /\ Len(results) = Len(clinic_links)

C2_Witness ==
    /\ pc = "idle"
    /\ results = <<"ok", "ok", "fail", "ok", "ok">>
    /\ ret = "True"
    /\ Len(clinic_data) > Len(data0)

\* C3: the root record is appended iff its name is non-empty and its address or
\* its access is non-empty; progress and total become 1 and 1 only in that case.
C3_RootAcceptance ==
    LET r == current_page_info
        kept == r.name # <<>> /\ (r.address # <<>> \/ r.access # <<>>)
    IN /\ pc \in {"L189", "L190"} => kept /\ clinic_data = Append(data0, r)
       /\ pc = "L193" =>
             IF kept
             THEN clinic_data = Append(data0, r) /\ progress = 1 /\ total = 1
             ELSE clinic_data = data0 /\ <<progress, total>> = prog0

C3_Witness ==
    /\ pc = "L193"
    /\ current_page_info.name # <<>>
    /\ current_page_info.address = <<>>
    /\ current_page_info.access = <<>>
    /\ clinic_data = data0

\* C4: the record of a fetched branch page is appended iff its name is non-empty,
\* whatever its address and access are.
C4_BranchAcceptance ==
    [][(pc = "L206" /\ results' = Append(results, "ok")) =>
          LET link == clinic_links[i + 1]
              rec == extract_clinic_info(BranchPage(link.url), link.url, link.name)
          IN clinic_data' = IF rec.name # <<>> THEN Append(clinic_data, rec) ELSE clinic_data]_vars

C4_Witness ==
    /\ pc = "L199"
    /\ i > 0
    /\ results[i] = "ok"
    /\ Len(clinic_data) > Len(data0) + Len(RootKept)
    /\ LET rec == clinic_data[Len(clinic_data)]
       IN /\ rec.url = clinic_links[i].url
          /\ rec.name # <<>>
          /\ rec.address = <<>>
          /\ rec.access = <<>>

\* C5: when the root request fails the call returns FALSE, status is Failed with the
\* error text in current_action, no branch page is requested and the record list
\* is what it was before the call.
C5_RootFailure ==
    (pc = "idle" /\ root_result = "fail") =>
        /\ ret = "False"
        /\ status = <<"Failed">>
        /\ current_action[1] = "error"
        /\ current_action[2] \in Errors
        /\ fetched = <<url>>
        /\ results = <<>>
        /\ clinic_data = data0

C5_Witness ==
    /\ pc = "idle"
    /\ root_result = "fail"
    /\ ret = "False"
    /\ data0 # <<>>
    /\ clinic_data = data0

\* C6: find_clinic_links returns, for each resolved URL of a matching anchor, one
\* entry, in the document order of the first anchor with that URL and with the
\* text of that first anchor.
C6_UniqueFirstOccurrence ==
    pc = "links_done" =>
        LET anchors == soup.anchors
            Res(j) == urljoin(url, anchors[j].href)
            First(j) == /\ MatchesPattern(anchors[j].href)
                        /\ \A j2 \in 1..(j - 1) :
                              MatchesPattern(anchors[j2].href) => Res(j2) # Res(j)
            Firsts == {j \in 1..Len(anchors) : First(j)}
        IN /\ Len(clinic_links) = Cardinality(Firsts)
           /\ \A a \in 1..Len(clinic_links) : \A b \in 1..Len(clinic_links) :
                 a # b => clinic_links[a].url # clinic_links[b].url
           /\ \A a \in 1..Len(clinic_links) :
                 \E j \in Firsts :
                    /\ Cardinality({j2 \in Firsts : j2 < j}) = a - 1
                    /\ clinic_links[a].url = Res(j)
                    /\ clinic_links[a].name = get_text_strip(anchors[j].text)

C6_Witness ==
    /\ pc = "links_done"
    /\ Len(soup.anchors) = 3
    /\ Len(clinic_links) = 2
    /\ soup.anchors[1].href # soup.anchors[3].href
    /\ urljoin(url, soup.anchors[1].href) = urljoin(url, soup.anchors[3].href)
    /\ soup.anchors[1].text # soup.anchors[3].text
    /\ clinic_links[1].name = get_text_strip(soup.anchors[1].text)
    /\ clinic_links[2].url = urljoin(url, soup.anchors[2].href)

\* which of the four dispatch branches a URL takes
Site(u) ==
    IF Contains(u.host, <<"dioclinic">>) THEN "A"
    ELSE IF Contains(u.host, <<"eminal-clinic">>) THEN "B"
    ELSE IF Contains(u.host, <<"frey-a">>) THEN "C"
    ELSE "G"

NameRows(sp) ==
    {k \in 1..Len(sp.rows) :
        /\ sp.rows[k].th # None
        /\ sp.rows[k].td # None
        /\ Contains(get_text_strip(sp.rows[k].th[1]), <<"in", "mei">>)}

Qualifies(elem) ==
    /\ elem # None
    /\ \/ Contains(get_text_strip(elem[1]), <<"in">>)
       \/ Contains(get_text_strip(elem[1]), <<"clinic">>)

\* the page itself offers a name to the branch that handles it
PageFound(sp, u) ==
    IF Site(u) = "A" THEN sp.h2_clinic_name # None
    ELSE IF Site(u) = "B" THEN NameRows(sp) # {}
    ELSE IF Site(u) = "C" THEN sp.h1 # None
    ELSE Qualifies(sp.h1) \/ Qualifies(sp.h2)

\* that name
PageName(sp, u) ==
    IF Site(u) = "A" THEN get_text_strip(sp.h2_clinic_name[1])
    ELSE IF Site(u) = "B"
    THEN LET k == CHOOSE k \in NameRows(sp) : \A k2 \in NameRows(sp) : k2 <= k
         IN get_text_strip(sp.rows[k].td[1])
    ELSE IF Site(u) = "C" THEN get_text_strip(sp.h1[1])
    ELSE IF Qualifies(sp.h1) THEN get_text_strip(sp.h1[1])
    ELSE get_text_strip(sp.h2[1])

C8_Rounded ==
    get_progress.percentage = IF total > 0 THEN Round(progress, total) ELSE 0

\* C8 (amended): the percentage is progress / total * 100 truncated to an integer
\* (the largest q with q * total <= 100 * progress), or 0 when total is 0.
C8_Truncated ==
    LET q == get_progress.percentage
    IN IF total > 0
       THEN q * total <= 100 * progress /\ 100 * progress < (q + 1) * total
       ELSE q = 0

C8_Witness ==
    /\ progress = 1
    /\ total = 6
    /\ get_progress.percentage = 16
    /\ Round(progress, total) = 17

\* C9 as stated: in one invocation the root URL is requested exactly once, each
\* discovered link URL at most once (exactly once, in discovery order, when there
\* are more than 3 links) and no other URL is requested.
C9_EachUrlOnce ==
    (pc = "idle" /\ root_result # "none") =>
        /\ Count(url, fetched) = 1
        /\ \A k \in 1..Len(clinic_links) : Count(clinic_links[k].url, fetched) <= 1
        /\ (root_result = "ok" /\ Len(clinic_links) > 3) =>
              /\ \A k \in 1..Len(clinic_links) : Count(clinic_links[k].url, fetched) = 1
              /\ SubSeq(fetched, 2, Len(fetched)) = LinkUrls(Len(clinic_links))
        /\ \A f \in 1..Len(fetched) :
              fetched[f] = url \/ \E k \in 1..Len(clinic_links) : fetched[f] = clinic_links[k].url

\* C9 (amended): the requests of one invocation are the root request, once, followed
\* by one request per discovered link, in discovery order, for all links when there
\* are more than 3 and for none otherwise; the discovered links have distinct URLs,
\* so a URL is requested twice only when the root URL is itself a discovered link.
C9_RequestSequence ==
    root_result # "none" =>
        /\ fetched = <<url>> \o LinkUrls(Len(results))
        /\ Len(results) <= Len(clinic_links)
        /\ Len(results) > 0 => Len(clinic_links) > 3
        /\ (pc = "idle" /\ root_result = "ok") =>
              Len(results) = IF Len(clinic_links) > 3 THEN Len(clinic_links) ELSE 0
        /\ \A a \in 1..Len(clinic_links) : \A b \in 1..Len(clinic_links) :
              a # b => clinic_links[a].url # clinic_links[b].url

C9_Witness ==
    /\ pc = "idle"
    /\ root_result = "ok"
    /\ Len(clinic_links) > 3
    /\ clinic_links[1].url = url
    /\ Count(url, fetched) = 2
    /\ \E k \in 1..Len(results) : results[k] = "fail"

\* C10: whenever the progress can be read, across any sequence of invocations on
\* one instance, progress <= total, so the percentage lies between 0 and 100.
C10_ProgressWithinTotal ==
    /\ progress <= total
    /\ get_progress.percentage \in 0..100

====
